---- MODULE Spec2Model ----
\* Model of add_image_formatter.py: a batch edit that inserts an `image:` field
\* into the front matter of every post that lacks one.
\*
\* Text is a sequence of one-character strings.  A file's content is the text
\* stored on disk; open(..., 'r') delivers it through Python's universal-newline
\* translation (ReadText), open(..., 'w') stores text as written (POSIX os.linesep).
EXTENDS Integers, Sequences, FiniteSets, TLC

\* file, hist: one document and the record of the calls of
\* add_image_to_frontmatter made on it.
\* fs, orig, pending, changed, output, pc, failed: a run of main() over _posts:
\* the files' contents now and at the start, the paths glob has not yielded yet,
\* the counter, the lines printed, where main is, and the path whose I/O failed.
VARIABLES file, hist, fs, orig, pending, changed, output, pc, failed

vars == <<file, hist, fs, orig, pending, changed, output, pc, failed>>

docVars == <<file, hist>>

batchVars == <<fs, orig, pending, changed, output, pc, failed>>

\* ---------------------------------------------------------------- bounds
MaxHeaderLines == 2

MaxBodyFrags == 2

MaxPieces == 3

MaxRuns == 2

NumFiles == 3

\* ------------------------------------------------------- text primitives
MinOf(S) == CHOOSE x \in S : \A y \in S : x <= y

MaxOf(S) == CHOOSE x \in S : \A y \in S : x >= y

Whitespace == {" ", "\t", "\n", "\r"}

strip(s) ==
  IF \A i \in 1..Len(s) : s[i] \in Whitespace THEN <<>>
  ELSE LET lo == CHOOSE i \in 1..Len(s) :
                   s[i] \notin Whitespace /\ \A j \in 1..(i - 1) : s[j] \in Whitespace
           hi == CHOOSE i \in 1..Len(s) :
                   s[i] \notin Whitespace /\ \A j \in (i + 1)..Len(s) : s[j] \in Whitespace
       IN  SubSeq(s, lo, hi)

startswith(s, p) == Len(s) >= Len(p) /\ SubSeq(s, 1, Len(p)) = p

\* t[i..i+Len(p)-1] = p
At(t, i, p) == i >= 1 /\ i + Len(p) - 1 <= Len(t) /\ \A d \in 1..Len(p) : t[i + d - 1] = p[d]

RECURSIVE join(_)
join(ls) == IF ls = <<>> THEN <<>> ELSE Head(ls) \o join(Tail(ls))

\* open(filepath, 'r', encoding='utf-8'): newline=None turns "\r\n" and a lone
\* "\r" into "\n".
RECURSIVE ReadText(_)
ReadText(raw) ==
  IF \A i \in 1..Len(raw) : raw[i] # "\r" THEN raw
  ELSE IF raw[1] = "\r"
       THEN IF Len(raw) >= 2 /\ raw[2] = "\n"
            THEN <<"\n">> \o ReadText(SubSeq(raw, 3, Len(raw)))
            ELSE <<"\n">> \o ReadText(Tail(raw))
       ELSE <<raw[1]>> \o ReadText(Tail(raw))

\* f.readlines(): the lines of the text, each with its terminating "\n"; only
\* the last line may lack one.
RECURSIVE readlines(_)
readlines(t) ==
  IF t = <<>> THEN <<>>
  ELSE LET nl == {i \in 1..Len(t) : t[i] = "\n"}
       IN  IF nl = {} THEN <<t>>
           ELSE <<SubSeq(t, 1, MinOf(nl))>> \o readlines(SubSeq(t, MinOf(nl) + 1, Len(t)))

\* ------------------------------------------------------------- constants
Marker == <<"-", "-", "-">>

ImageKey == <<"i", "m", "a", "g", "e", ":">>

TitleKey == <<"t", "i", "t", "l", "e", ":">>

DEFAULT_IMAGE ==
  <<"/", "a", "s", "s", "e", "t", "s", "/", "f", "a", "v", "i", "c", "o", "n", "/",
    "a", "n", "d", "r", "o", "i", "d", "-", "c", "h", "r", "o", "m", "e", "-",
    "5", "1", "2", "x", "5", "1", "2", ".", "p", "n", "g">>

\* ---------------------------------------------------------- re.search
\* A match object is [some |-> TRUE, url |-> group(1)]; None is NoMatch.
NoMatch == [some |-> FALSE, url |-> <<>>]

NoNewline(t, a, b) == \A x \in a..b : t[x] # "\n"

\* The ends k of the URL group for an inline image whose "](" is at j: the ")"
\* reachable from j+2 without crossing a newline ('.' does not match "\n").
MdCloses(t, j) == {k \in (j + 2)..Len(t) : t[k] = ")" /\ NoNewline(t, j + 2, k - 1)}

\* The positions j of "](" reachable from the "![" at i by '.*?' that lead to a match.
MdMids(t, i) ==
  {j \in (i + 2)..Len(t) : At(t, j, <<"]", "(">>) /\ NoNewline(t, i + 2, j - 1)
                           /\ MdCloses(t, j) # {}}

\* re.search(r'!\[.*?\]\((.*?)\)', content): leftmost start; each lazy '.*?'
\* takes the shortest extension that lets the rest of the pattern match.
md_search(t) ==
  LET starts == {i \in 1..Len(t) : At(t, i, <<"!", "[">>) /\ MdMids(t, i) # {}}
  IN  IF starts = {} THEN NoMatch
      ELSE LET i == MinOf(starts)
               j == MinOf(MdMids(t, i))
               k == MinOf(MdCloses(t, j))
           IN  [some |-> TRUE, url |-> SubSeq(t, j + 2, k - 1)]

Quotes == {"\"", "'"}

\* The closing quote of a src value that opens at p+4: [^"']+ is greedy and
\* stops at the first quote; it needs at least one character.
SrcClose(t, p) ==
  LET qs == {q \in (p + 5)..Len(t) : t[q] \in Quotes}
  IN  IF qs = {} THEN 0 ELSE MinOf(qs)

\* The positions p of 'src=' reachable from the '<img' at i by [^>]+ (one or
\* more characters other than ">", newlines included) that lead to a match.
ImgSrcs(t, i) ==
  {p \in (i + 5)..Len(t) : At(t, p, <<"s", "r", "c", "=">>)
                           /\ \A x \in (i + 4)..(p - 1) : t[x] # ">"
                           /\ p + 4 <= Len(t) /\ t[p + 4] \in Quotes
                           /\ SrcClose(t, p) >= p + 6}

\* re.search(r'<img[^>]+src=["\']([^"\']+)["\']', content): leftmost start,
\* greedy [^>]+ (the last usable 'src='), no flags (the tag name is lower case).
html_search(t) ==
  LET starts == {i \in 1..Len(t) : At(t, i, <<"<", "i", "m", "g">>) /\ ImgSrcs(t, i) # {}}
  IN  IF starts = {} THEN NoMatch
      ELSE LET i == MinOf(starts)
               p == MaxOf(ImgSrcs(t, i))
           IN  [some |-> TRUE, url |-> SubSeq(t, p + 5, SrcClose(t, p) - 1)]

find_first_image_html_first(content) ==
  LET html_img == html_search(content)
  IN  IF html_img.some THEN html_img
      ELSE LET md_img == md_search(content)
           IN  IF md_img.some THEN md_img ELSE NoMatch

find_first_image(content) ==
  LET md_img == md_search(content)
  IN  IF md_img.some THEN md_img
      ELSE LET html_img == html_search(content)
           IN  IF html_img.some THEN html_img ELSE NoMatch

image_url_no_fallback(body) ==
  LET found == find_first_image(body)
  IN  IF found.some THEN found.url ELSE <<"N", "o", "n", "e">>

\* find_first_image(body) or DEFAULT_IMAGE: None and '' are both falsy.
image_url_of(body) ==
  LET found == find_first_image(body)
  IN  IF found.some /\ found.url # <<>> THEN found.url ELSE DEFAULT_IMAGE

RECURSIVE insert_image_unguarded(_, _, _)
insert_image_unguarded(frontmatter, image_url, image_inserted) ==
  IF frontmatter = <<>> THEN <<>>
  ELSE LET line == Head(frontmatter)
       IN  IF startswith(strip(line), TitleKey)
           THEN <<line, ImageKey \o <<" ">> \o image_url \o <<"\n">>>>
                  \o insert_image_unguarded(Tail(frontmatter), image_url, TRUE)
           ELSE <<line>> \o insert_image_unguarded(Tail(frontmatter), image_url, image_inserted)

\* The loop that copies the front matter and appends the image line after the
\* first line whose stripped text starts with 'title:'.
RECURSIVE insert_image(_, _, _)
insert_image(frontmatter, image_url, image_inserted) ==
  IF frontmatter = <<>> THEN <<>>
  ELSE LET line == Head(frontmatter)
       IN  IF startswith(strip(line), TitleKey) /\ ~image_inserted
           THEN <<line, ImageKey \o <<" ">> \o image_url \o <<"\n">>>>
                  \o insert_image(Tail(frontmatter), image_url, TRUE)
           ELSE <<line>> \o insert_image(Tail(frontmatter), image_url, image_inserted)

Unchanged(raw) ==
  [ret |-> FALSE, wrote |-> FALSE, content |-> raw, called |-> FALSE,
   body |-> <<>>, found |-> NoMatch, chunks |-> <<>>]

\* add_image_to_frontmatter(filepath) on a file holding raw: the value returned,
\* whether the file was opened for writing, the content left in the file, the
\* body handed to find_first_image with its result, and the strings written.
add_image_to_frontmatter(raw) ==
  LET lines == readlines(ReadText(raw))
  IN  IF lines = <<>> \/ ~startswith(strip(lines[1]), Marker) THEN Unchanged(raw)
      ELSE LET closers == {i \in 2..Len(lines) : strip(lines[i]) = Marker}
           IN  IF closers = {} THEN Unchanged(raw)
               ELSE LET end_idx == MinOf(closers)
                        frontmatter == SubSeq(lines, 1, end_idx - 1)
                        closing == lines[end_idx]
                        body == join(SubSeq(lines, end_idx + 1, Len(lines)))
                    IN  IF \E n \in 1..Len(frontmatter) :
                              startswith(strip(frontmatter[n]), ImageKey)
                        THEN Unchanged(raw)
                        ELSE LET new_frontmatter ==
                                   insert_image(frontmatter, image_url_of(body), FALSE)
                                 written == new_frontmatter \o <<closing, <<"\n">>, body>>
                             IN  [ret |-> TRUE, wrote |-> TRUE, content |-> join(written),
                                  called |-> TRUE, body |-> body,
                                  found |-> find_first_image(body), chunks |-> written]

\* ------------------------------------------------------------ documents
OpenPool ==
  { <<>>,
    <<"-", "-", "-", "\n">>,
    <<" ", "-", "-", "-", " ", "\n">>,
    <<"-", "-", "-", "-", "\n">> }

HdrPool ==
  { <<"t", "i", "t", "l", "e", ":", " ", "T", "\n">>,
    <<" ", "t", "i", "t", "l", "e", ":", " ", "S", "\r", "\n">>,
    <<"i", "m", "a", "g", "e", ":", " ", "i", "\n">>,
    <<"k", ":", " ", "v", "\n">> }

ClosePool ==
  { <<>>,
    <<"-", "-", "-", "\n">>,
    <<"-", "-", "-">> }

BodyPool ==
  { <<"!", "[", "a", "]", "(", "u", ")", "\n">>,
    <<"!", "[", "b", "]", "(", ")", "\n">>,
    <<"<", "i", "m", "g", " ", "s", "r", "c", "=", "\"", "v", "\"", ">", "\n">>,
    <<"<", "I", "M", "G", " ", "s", "r", "c", "=", "'", "w", "'", ">", "\n">>,
    <<"-", "-", "-", "\n">> }

SeqsUpTo(S, n) == UNION {[1..m -> S] : m \in 0..n}

\* ------------------------------------------- the Document Processor alone
\* A document is an opening line, header lines, a closing line and body
\* fragments, each drawn from its pool (any of them possibly absent).
DocInit ==
  /\ \E o \in OpenPool, h \in SeqsUpTo(HdrPool, MaxHeaderLines),
        c \in ClosePool, b \in SeqsUpTo(BodyPool, MaxBodyFrags) :
       /\ Len(h) + Len(b) <= MaxPieces
       /\ file = o \o join(h) \o c \o join(b)
  /\ hist = <<>>
  /\ fs = <<>> /\ orig = <<>> /\ pending = {} /\ changed = 0 /\ output = <<>>
  /\ pc = "idle" /\ failed = 0

\* One call of add_image_to_frontmatter on the file.
ProcessDocument ==
  /\ Len(hist) < MaxRuns
  /\ \E r \in {add_image_to_frontmatter(file)} :
         /\ file' = r.content
         /\ hist' = Append(hist, [before |-> file, after |-> r.content, ret |-> r.ret,
                                  wrote |-> r.wrote, called |-> r.called,
                                  body |-> r.body, found |-> r.found])
  /\ UNCHANGED batchVars

Next == ProcessDocument

Spec == DocInit /\ [][Next]_vars

\* ------------------------------------------------------ the Batch Driver
\* POSTS_DIR.glob('*.md') yields the paths 1..NumFiles in an order the file
\* system chooses.
Paths == 1..NumFiles

BatchDocs ==
  { <<"-", "-", "-", "\n", "t", "i", "t", "l", "e", ":", " ", "T", "\n",
      "-", "-", "-", "\n", "!", "[", "a", "]", "(", "u", ")", "\n">>,
    <<"-", "-", "-", "\n", "k", ":", " ", "v", "\n", "-", "-", "-", "\n">>,
    <<"-", "-", "-", "\n", "i", "m", "a", "g", "e", ":", " ", "i", "\n", "-", "-", "-", "\n">>,
    <<"k", ":", " ", "v", "\n">> }

Updated(p) == [kind |-> "Updated", path |-> p, count |-> 0]

Done(n) == [kind |-> "Done", path |-> 0, count |-> n]

BatchInit ==
  /\ fs \in [Paths -> BatchDocs]
  /\ orig = fs
  /\ pending = Paths
  /\ changed = 0
  /\ output = <<>>
  /\ pc = "loop"
  /\ failed = 0
  /\ file = <<>> /\ hist = <<>>

\* One iteration of the for loop of main(): the next path is processed, and
\* counted and printed when add_image_to_frontmatter returns True.
MainIteration ==
  /\ pc = "loop"
  /\ \E p \in pending :
       \E r \in {add_image_to_frontmatter(fs[p])} :
         /\ fs' = [fs EXCEPT ![p] = r.content]
         /\ pending' = pending \ {p}
         /\ changed' = IF r.ret THEN changed + 1 ELSE changed
         /\ output' = IF r.ret THEN Append(output, Updated(p)) ELSE output
  /\ UNCHANGED <<orig, pc, failed, docVars>>

MainReadFails_swallowed ==
  /\ pc = "loop"
  /\ \E p \in pending :
       /\ failed' = p
       /\ pending' = pending \ {p}
  /\ UNCHANGED <<fs, orig, pc, changed, output, docVars>>

\* open(filepath, 'r') or f.readlines() raises: nothing catches it, main ends.
MainReadFails ==
  /\ pc = "loop"
  /\ \E p \in pending :
       /\ failed' = p
       /\ pc' = "failed"
  /\ UNCHANGED <<fs, orig, pending, changed, output, docVars>>

\* open(filepath, 'w') raises (the file keeps its content), or it truncates the
\* file and one of the writes or the close raises after n of the strings
\* reached the file; nothing catches it, main ends.
MainWriteFails ==
  /\ pc = "loop"
  /\ \E p \in pending :
       \E r \in {add_image_to_frontmatter(fs[p])} :
         /\ r.wrote
         /\ \E n \in 0..Len(r.chunks), opened \in BOOLEAN :
              fs' = [fs EXCEPT ![p] = IF opened THEN join(SubSeq(r.chunks, 1, n))
                                      ELSE fs[p]]
         /\ failed' = p
         /\ pc' = "failed"
  /\ UNCHANGED <<orig, pending, changed, output, docVars>>

\* The loop is exhausted: print(f'Done. {changed} files updated.')
MainDone ==
  /\ pc = "loop"
  /\ pending = {}
  /\ output' = Append(output, Done(changed))
  /\ pc' = "done"
  /\ UNCHANGED <<fs, orig, pending, changed, failed, docVars>>

BatchNext == MainIteration \/ MainReadFails \/ MainWriteFails \/ MainDone

SpecBatch == BatchInit /\ [][BatchNext]_vars

\* ------------------------------------------- vocabulary of the properties
\* The specification's reading of a document: the header is delimited by a
\* first line that strips to exactly the marker and the next such line.
Ran == hist # <<>>

Last == hist[Len(hist)]

LinesOf(raw) == readlines(ReadText(raw))

IsMarkerLine(l) == strip(l) = Marker

ClosingLine(ls) ==
  IF \E i \in 2..Len(ls) : IsMarkerLine(ls[i])
  THEN CHOOSE i \in 2..Len(ls) :
         IsMarkerLine(ls[i]) /\ \A j \in 2..(i - 1) : ~IsMarkerLine(ls[j])
  ELSE 0

WellFormed(raw) ==
  LET ls == LinesOf(raw)
  IN  ls # <<>> /\ IsMarkerLine(ls[1]) /\ ClosingLine(ls) # 0

HeaderOf(raw) ==
  LET ls == LinesOf(raw) IN SubSeq(ls, 2, ClosingLine(ls) - 1)

BodyOf(raw) ==
  LET ls == LinesOf(raw) IN join(SubSeq(ls, ClosingLine(ls) + 1, Len(ls)))

IsField(l, key) == startswith(strip(l), key)

FieldLines(H, key) == {n \in 1..Len(H) : IsField(H[n], key)}

Eligible(raw) == WellFormed(raw) /\ FieldLines(HeaderOf(raw), ImageKey) = {}

HasTitle(raw) == FieldLines(HeaderOf(raw), TitleKey) # {}

FirstTitle(raw) ==
  LET T == FieldLines(HeaderOf(raw), TitleKey)
  IN  CHOOSE k \in T : \A n \in T : k <= n

Without(H, n) == SubSeq(H, 1, n - 1) \o SubSeq(H, n + 1, Len(H))

ImageLine(url) == <<"i", "m", "a", "g", "e", ":", " ">> \o url \o <<"\n">>

\* The inline image references ![alt](URL) of a text: <<i, j, k>> with "![" at
\* i, the first "](" after it at j and the first ")" after that at k, on one line.
InlineRefs(t) ==
  UNION { UNION { { <<i, j, k>> : k \in {k \in (j + 2)..Len(t) :
                                          /\ t[k] = ")"
                                          /\ \A x \in (i + 2)..k : t[x] # "\n"
                                          /\ \A x \in (j + 2)..(k - 1) : t[x] # ")"} }
                  : j \in {j \in (i + 2)..Len(t) :
                             /\ At(t, j, <<"]", "(">>)
                             /\ \A x \in (i + 2)..(j - 1) : ~At(t, x, <<"]", "(">>)} }
          : i \in {i \in 1..Len(t) : At(t, i, <<"!", "[">>)} }

FirstInline(t) == CHOOSE r \in InlineRefs(t) : \A o \in InlineRefs(t) : r[1] <= o[1]

InlineUrl(t, r) == SubSeq(t, r[2] + 2, r[3] - 1)

ToLower(c) == IF c = "I" THEN "i" ELSE IF c = "M" THEN "m" ELSE IF c = "G" THEN "g" ELSE c

IsImgTagAt(t, i, anyCase) ==
  /\ i + 3 <= Len(t)
  /\ IF anyCase THEN <<t[i], ToLower(t[i + 1]), ToLower(t[i + 2]), ToLower(t[i + 3])>>
                       = <<"<", "i", "m", "g">>
     ELSE At(t, i, <<"<", "i", "m", "g">>)

\* The img tags with a src attribute of a text: <<i, p, q>> with the tag at i,
\* its attribute src= at p inside the tag and the quoted, non-empty value
\* between p+4 and q.
ImgTags(t, anyCase) ==
  UNION { UNION { { <<i, p, q>> : q \in {q \in (p + 6)..Len(t) :
                                          /\ t[q] \in Quotes
                                          /\ \A x \in (p + 5)..(q - 1) : t[x] \notin Quotes} }
                  : p \in {p \in (i + 5)..(Len(t) - 4) :
                             /\ At(t, p, <<"s", "r", "c", "=">>)
                             /\ t[p - 1] \in Whitespace /\ t[p + 4] \in Quotes
                             /\ \A x \in (i + 4)..(p - 1) : t[x] # ">"} }
          : i \in {i \in 1..Len(t) : IsImgTagAt(t, i, anyCase)} }

FirstImgTag(t, anyCase) ==
  CHOOSE r \in ImgTags(t, anyCase) : \A o \in ImgTags(t, anyCase) : r[1] <= o[1]

ImgSrc(t, r) == SubSeq(t, r[2] + 5, r[3] - 1)

NoImageSyntax(t) ==
  \A i \in 1..Len(t) : ~At(t, i, <<"!", "[">>) /\ ~IsImgTagAt(t, i, TRUE)

\* ------------------------------------------------------------ properties
\* C1: running the Document Processor a second time leaves the content the
\* first run gave and reports "unchanged" without writing, for every document.
C1_Idempotent ==
  \A n \in 2..Len(hist) :
    hist[n].after = hist[1].after /\ ~hist[n].ret /\ ~hist[n].wrote

\* C2: for an eligible document the text after the closing marker line is the
\* same before and after processing, and the rewritten file is the old one
\* with one line (the image line) added.
C2_BodyPreserved ==
  (Ran /\ Eligible(Last.before)) =>
     /\ BodyOf(Last.after) = BodyOf(Last.before)
     /\ HasTitle(Last.before) =>
          \E n \in 1..Len(LinesOf(Last.after)) :
             Without(LinesOf(Last.after), n) = LinesOf(Last.before)

\* C3: a file is written only if its first line strips to exactly the marker,
\* a later line does too and no header line is an image field; otherwise it
\* is left untouched and reported "unchanged".
C3_WritesOnlyEligible ==
  Ran => /\ Last.wrote => Eligible(Last.before)
         /\ ~Eligible(Last.before) => (Last.after = Last.before /\ ~Last.ret)

\* C4: for an eligible document whose first title line is header line k, the
\* rewritten header has an image line at k+1, it is the only image line, and
\* removing it gives back the original header lines in their order.
C4_InsertionPlacement ==
  (Ran /\ Eligible(Last.before) /\ HasTitle(Last.before)) =>
     LET H == HeaderOf(Last.before)
         G == HeaderOf(Last.after)
         k == FirstTitle(Last.before)
     IN  /\ Len(G) = Len(H) + 1
         /\ FieldLines(G, ImageKey) = {k + 1}
         /\ \E url \in {Last.found.url, DEFAULT_IMAGE} : G[k + 1] = ImageLine(url)
         /\ Without(G, k + 1) = H

C4_Witness ==
  /\ Ran /\ Eligible(Last.before) /\ Last.wrote
  /\ Cardinality(FieldLines(HeaderOf(Last.before), TitleKey)) >= 2
  /\ FieldLines(HeaderOf(Last.after), ImageKey) = {FirstTitle(Last.before) + 1}

\* C5: when the body has an inline image reference and an img tag,
\* find_first_image returns the URL of the first inline reference, wherever
\* the img tag stands.
C5_InlinePrecedence ==
  (Ran /\ Last.called /\ InlineRefs(Last.body) # {} /\ ImgTags(Last.body, TRUE) # {}) =>
     Last.found = [some |-> TRUE, url |-> InlineUrl(Last.body, FirstInline(Last.body))]

C5_Witness ==
  /\ Ran /\ Last.called
  /\ InlineRefs(Last.body) # {} /\ ImgTags(Last.body, FALSE) # {}
  /\ FirstImgTag(Last.body, FALSE)[1] < FirstInline(Last.body)[1]
  /\ Last.found.url = InlineUrl(Last.body, FirstInline(Last.body))

\* C6: for an eligible document with a title line whose body has no image
\* syntax at all, the line inserted after the title is the image line of the
\* default asset path.
C6_Fallback ==
  (Ran /\ Eligible(Last.before) /\ HasTitle(Last.before)
       /\ NoImageSyntax(BodyOf(Last.before))) =>
     /\ Len(HeaderOf(Last.after)) > FirstTitle(Last.before)
     /\ HeaderOf(Last.after)[FirstTitle(Last.before) + 1] = ImageLine(DEFAULT_IMAGE)

C6_Witness ==
  /\ Ran /\ Eligible(Last.before) /\ HasTitle(Last.before)
  /\ BodyOf(Last.before) # <<>> /\ NoImageSyntax(BodyOf(Last.before))
  /\ Last.wrote
  /\ HeaderOf(Last.after)[FirstTitle(Last.before) + 1] = ImageLine(DEFAULT_IMAGE)

\* C7: a well-formed document with neither an image line nor a title line
\* keeps its header and is reported "unchanged".
C7_NoTitleUnchanged ==
  (Ran /\ Eligible(Last.before) /\ ~HasTitle(Last.before)) =>
     /\ HeaderOf(Last.after) = HeaderOf(Last.before)
     /\ ~Last.ret

\* C8: when the body has no inline image reference, find_first_image returns
\* the src value of the first img tag, whatever the letter case of the tag name.
C8_TagNameAnyCase ==
  (Ran /\ Eligible(Last.before) /\ InlineRefs(Last.body) = {} /\ ImgTags(Last.body, TRUE) # {}) =>
     Last.found = [some |-> TRUE, url |-> ImgSrc(Last.body, FirstImgTag(Last.body, TRUE))]

UsableUrls(t) ==
  {InlineUrl(t, r) : r \in {r \in InlineRefs(t) : InlineUrl(t, r) # <<>>}}
    \cup {ImgSrc(t, r) : r \in ImgTags(t, FALSE)}

\* C10: for an eligible document with a title line whose body has an img tag
\* with a non-empty src or an inline image with a non-empty URL, the inserted
\* value is one of those URLs and not the default asset path.
C10_DefaultOnlyWhenNoImage ==
  (Ran /\ Eligible(Last.before) /\ HasTitle(Last.before)
       /\ UsableUrls(BodyOf(Last.before)) # {}) =>
     /\ Len(HeaderOf(Last.after)) > FirstTitle(Last.before)
     /\ HeaderOf(Last.after)[FirstTitle(Last.before) + 1] # ImageLine(DEFAULT_IMAGE)
     /\ \E url \in UsableUrls(BodyOf(Last.before)) :
          HeaderOf(Last.after)[FirstTitle(Last.before) + 1] = ImageLine(url)

Aborted ==
  /\ \A m \in 1..Len(output) : output[m].kind # "Done"
  /\ \A p \in Paths \ (pending \cup {failed}) :
       fs[p] = add_image_to_frontmatter(orig[p]).content
  /\ \A p \in pending \ {failed} : fs[p] = orig[p]

\* C9: once the read or the write of a document has failed, no summary has
\* been or will be printed, the documents processed before it hold the content
\* their processing gave them, the documents after it hold their original
\* content, and nothing is read, written, counted or printed any more.
C9_FailureAborts ==
  /\ [](failed # 0 => Aborted)
  /\ [][failed # 0 => UNCHANGED <<fs, pending, changed, output, pc>>]_vars

C9_Witness ==
  /\ pc = "failed"
  /\ pending \ {failed} # {}
  /\ \E p \in Paths \ pending : fs[p] # orig[p]
  /\ fs[failed] # orig[failed]

====
